---- MODULE Spec2Model ----
(***************************************************************************)
(* Model of profile-rs (src/src/main.rs): a CLI that keeps, for every      *)
(* managed file P, a snapshot P.org and one snapshot P.<profile> per       *)
(* profile, and swaps them into the live file P.                           *)
(*                                                                         *)
(* One invocation of the binary is a run of main(): get_profiles and       *)
(* deactivate (Start), then the requested operation, then serialize and    *)
(* write the store (Persist).  pc is main's position.                      *)
(* Between runs (pc = "idle") the user may edit a live file, edit a        *)
(* profile's variant snapshot, or delete a variant snapshot by hand.       *)
(*                                                                         *)
(* A path is a sequence of components: <<"f">> is the file f, <<"f","org">>*)
(* is f.org and <<"f","a">> is f.a.  File arguments given on the command   *)
(* line are base files (never a derived snapshot name), the symlink fl -> f*)
(* or a name that does not exist.  Profile names are non-empty.            *)
(*                                                                         *)
(* Spec starts from the empty directory state and issues every command;    *)
(* SpecSwap starts from any registry and disk and issues activate only.    *)
(***************************************************************************)
EXTENDS Integers, Sequences, FiniteSets, TLC

\* ---------------------------------------------------------------- bounds
\* number of entries (over all file lists) the registry is grown to by Add
MaxLen == 3
\* number of outside events: manual edits, manual deletions, failed store writes
MaxEdits == 1

\* ---------------------------------------------------------------- universe
Absent == 0
\* file contents: the program only copies them, two values tell them apart
Contents == {1, 2}
Bases == {"f", "g"}
ProfileNames == {"a", "b"}
ProfileArgs == ProfileNames \cup {"org"}
Exts == ProfileArgs
FileArgs == {<<"f">>, <<"g">>, <<"fl">>, <<"nofile">>}
BasePaths == {<<b>> : b \in Bases}
SnapPaths == {<<b, e>> : b \in Bases, e \in Exts}
AllPaths == BasePaths \cup SnapPaths

NoStore == [kind |-> "absent", doc |-> {}]   \* the store file does not exist
Garbage == [kind |-> "torn", doc |-> {}]     \* a torn, unparsable document
Doc(d) == [kind |-> "doc", doc |-> d]        \* a TOML document
NoCmd == [kind |-> "none", profile |-> "", file |-> <<>>]

VARIABLES
    fs,          \* the disk: path -> content, Absent when the file is missing
    store,       \* the profiles.toml file: NoStore, Garbage or a TOML document
    profiles,    \* main's HashMap<String,Profile> (name -> list of paths)
    pc,          \* main's position: idle, deactivated, finished, exited
    cmd,         \* args.command of the run
    exitCode,    \* exit code of the run, -1 while none
    err,         \* the error passed to log::error! in the run, "" when none
    liveSrc,     \* history: base -> profile whose variant was last copied into it, "" if none
    snap,        \* history: <<base, profile>> -> live content when add_profile ran
    clean,       \* history: no run reported an error, no snapshot deleted by hand
    edits        \* number of outside events so far

vars == <<fs, store, profiles, pc, cmd, exitCode, err, liveSrc, snap, clean, edits>>

Exists(disk, p) == p \in DOMAIN disk /\ disk[p] # Absent

\* ---------------------------------------------------------------- store
\* a serializer that writes only the first file of every profile
ToToml_firstFile(prf) ==
    {[name |-> n, files |-> SubSeq(prf[n], 1, 1)] : n \in DOMAIN prf}

\* toml::to_string_pretty: one table per profile, holding its files array
ToToml(prf) == {[name |-> n, files |-> prf[n]] : n \in DOMAIN prf}

\* toml::from_str into HashMap<String,Profile>
FromToml(doc) ==
    [n \in {t.name : t \in doc} |-> (CHOOSE t \in doc : t.name = n).files]

get_profiles(st) ==
    IF st.kind = "absent"
    THEN [ok |-> TRUE, store |-> Doc({}), profiles |-> FromToml({})]
    ELSE IF st.kind = "torn"
    THEN [ok |-> FALSE, store |-> st, profiles |-> FromToml({})]
    ELSE [ok |-> TRUE, store |-> st, profiles |-> FromToml(st.doc)]

\* ---------------------------------------------------------------- naming
\* Path::canonicalize: resolves the symlink fl -> f, fails on a missing file
Resolve(p) == IF p = <<"fl">> THEN <<"f">> ELSE p

add_extension(p, ext) == IF ext = "" THEN p ELSE Append(p, ext)

\* make_canon_names that ignores profile_name: every profile shares one variant
make_canon_names_sharedVariant(basename, profile_name, disk) ==
    LET canon == Resolve(basename) IN
    IF ~Exists(disk, canon)
    THEN [ok |-> FALSE, base |-> canon, new |-> canon, org |-> canon]
    ELSE [ok |-> TRUE, base |-> canon,
          new |-> add_extension(canon, "a"),
          org |-> add_extension(canon, "org")]

make_canon_names(basename, profile_name, disk) ==
    LET canon == Resolve(basename) IN
    IF ~Exists(disk, canon)
    THEN [ok |-> FALSE, base |-> canon, new |-> canon, org |-> canon]
    ELSE [ok |-> TRUE, base |-> canon,
          new |-> add_extension(canon, profile_name),
          org |-> add_extension(canon, "org")]

\* std::fs::copy: fails when from is missing, else to holds from's content
copy_file(from, to, disk) ==
    IF ~Exists(disk, from) THEN [ok |-> FALSE, fs |-> disk]
    ELSE [ok |-> TRUE, fs |-> [disk EXCEPT ![to] = disk[from]]]

\* std::fs::remove_file: fails when the file is missing
remove_file(p, disk) ==
    IF ~Exists(disk, p) THEN [ok |-> FALSE, fs |-> disk]
    ELSE [ok |-> TRUE, fs |-> [disk EXCEPT ![p] = Absent]]

\* ---------------------------------------------------------------- registry
\* an insertion that does not list a path twice
Insert_dedup(prf, name, p) ==
    IF name \in DOMAIN prf
    THEN IF \E i \in 1..Len(prf[name]) : prf[name][i] = p
         THEN prf ELSE [prf EXCEPT ![name] = Append(@, p)]
    ELSE [n \in DOMAIN prf \cup {name} |-> IF n = name THEN <<p>> ELSE prf[n]]

Insert(prf, name, p) ==
    IF name \in DOMAIN prf THEN [prf EXCEPT ![name] = Append(@, p)]
    ELSE [n \in DOMAIN prf \cup {name} |-> IF n = name THEN <<p>> ELSE prf[n]]

Drop(prf, name) == [n \in DOMAIN prf \ {name} |-> prf[n]]

\* a search that returns the last element equal to p instead of the first
position_last(files, p) ==
    IF \E i \in 1..Len(files) : files[i] = p
    THEN CHOOSE i \in 1..Len(files) :
             files[i] = p /\ \A j \in (i + 1)..Len(files) : files[j] # p
    ELSE 0

\* Iterator::position: index of the first element equal to p, 0 when none
position(files, p) ==
    IF \E i \in 1..Len(files) : files[i] = p
    THEN CHOOSE i \in 1..Len(files) :
             files[i] = p /\ \A j \in 1..(i - 1) : files[j] # p
    ELSE 0

\* Vec::remove(i)
VecRemove(files, i) == SubSeq(files, 1, i - 1) \o SubSeq(files, i + 1, Len(files))

Range(s) == {s[i] : i \in 1..Len(s)}

\* the HashSet built at the top of deactivate
ManagedFiles(prf) == UNION {Range(prf[n]) : n \in DOMAIN prf}

\* the orders in which a HashSet of these elements may be iterated
Orders(S) == {o \in [1..Cardinality(S) -> S] : Range(o) = S}

\* ---------------------------------------------------------------- operations
\* add_profile without the test for the reserved name
add_profile_noReserved(name, basename, prf, disk) ==
    LET n == make_canon_names(basename, name, disk) IN
    IF ~n.ok
    THEN [ok |-> FALSE, err |-> "canonicalize", fs |-> disk, profiles |-> prf]
    ELSE LET c1 == copy_file(n.base, n.org, disk) IN
         IF ~c1.ok
         THEN [ok |-> FALSE, err |-> "copy", fs |-> c1.fs, profiles |-> prf]
         ELSE LET c2 == copy_file(n.base, n.new, c1.fs) IN
              IF ~c2.ok
              THEN [ok |-> FALSE, err |-> "copy", fs |-> c2.fs, profiles |-> prf]
              ELSE [ok |-> TRUE, err |-> "", fs |-> c2.fs,
                    profiles |-> Insert(prf, name, n.base)]

add_profile(name, basename, prf, disk) ==
    IF name = "org"
    THEN [ok |-> FALSE, err |-> "reserved", fs |-> disk, profiles |-> prf]
    ELSE LET n == make_canon_names(basename, name, disk) IN
         IF ~n.ok
         THEN [ok |-> FALSE, err |-> "canonicalize", fs |-> disk, profiles |-> prf]
         ELSE LET c1 == copy_file(n.base, n.org, disk) IN
              IF ~c1.ok
              THEN [ok |-> FALSE, err |-> "copy", fs |-> c1.fs, profiles |-> prf]
              ELSE LET c2 == copy_file(n.base, n.new, c1.fs) IN
                   IF ~c2.ok
                   THEN [ok |-> FALSE, err |-> "copy", fs |-> c2.fs, profiles |-> prf]
                   ELSE [ok |-> TRUE, err |-> "", fs |-> c2.fs,
                         profiles |-> Insert(prf, name, n.base)]

\* remove_profile that drops the profile whether or not its list is empty
remove_profile_dropAlways(name, basename, prf, disk) ==
    LET n == make_canon_names(basename, name, disk) IN
    IF ~n.ok
    THEN [ok |-> FALSE, err |-> "canonicalize", fs |-> disk, profiles |-> prf]
    ELSE IF name \notin DOMAIN prf
    THEN [ok |-> FALSE, err |-> "no_profile", fs |-> disk, profiles |-> prf]
    ELSE LET found == position(prf[name], n.base) IN
         IF found = 0
         THEN [ok |-> FALSE, err |-> "not_managed", fs |-> disk, profiles |-> prf]
         ELSE LET shorter == [prf EXCEPT ![name] = VecRemove(@, found)]
                  d1 == remove_file(n.new, disk)
              IN IF ~d1.ok
                 THEN [ok |-> FALSE, err |-> "delete", fs |-> d1.fs, profiles |-> shorter]
                 ELSE LET d2 == remove_file(n.org, d1.fs) IN
                      IF ~d2.ok
                      THEN [ok |-> FALSE, err |-> "delete", fs |-> d2.fs,
                            profiles |-> shorter]
                      ELSE [ok |-> TRUE, err |-> "", fs |-> d2.fs,
                            profiles |-> Drop(shorter, name)]

\* remove_profile without the test for the emptied list
remove_profile_keepEmpty(name, basename, prf, disk) ==
    LET n == make_canon_names(basename, name, disk) IN
    IF ~n.ok
    THEN [ok |-> FALSE, err |-> "canonicalize", fs |-> disk, profiles |-> prf]
    ELSE IF name \notin DOMAIN prf
    THEN [ok |-> FALSE, err |-> "no_profile", fs |-> disk, profiles |-> prf]
    ELSE LET found == position(prf[name], n.base) IN
         IF found = 0
         THEN [ok |-> FALSE, err |-> "not_managed", fs |-> disk, profiles |-> prf]
         ELSE LET shorter == [prf EXCEPT ![name] = VecRemove(@, found)]
                  d1 == remove_file(n.new, disk)
              IN IF ~d1.ok
                 THEN [ok |-> FALSE, err |-> "delete", fs |-> d1.fs, profiles |-> shorter]
                 ELSE LET d2 == remove_file(n.org, d1.fs) IN
                      IF ~d2.ok
                      THEN [ok |-> FALSE, err |-> "delete", fs |-> d2.fs,
                            profiles |-> shorter]
                      ELSE [ok |-> TRUE, err |-> "", fs |-> d2.fs,
                            profiles |-> shorter]

remove_profile(name, basename, prf, disk) ==
    LET n == make_canon_names(basename, name, disk) IN
    IF ~n.ok
    THEN [ok |-> FALSE, err |-> "canonicalize", fs |-> disk, profiles |-> prf]
    ELSE IF name \notin DOMAIN prf
    THEN [ok |-> FALSE, err |-> "no_profile", fs |-> disk, profiles |-> prf]
    ELSE LET found == position(prf[name], n.base) IN
         IF found = 0
         THEN [ok |-> FALSE, err |-> "not_managed", fs |-> disk, profiles |-> prf]
         ELSE LET shorter == [prf EXCEPT ![name] = VecRemove(@, found)]
                  d1 == remove_file(n.new, disk)
              IN IF ~d1.ok
                 THEN [ok |-> FALSE, err |-> "delete", fs |-> d1.fs, profiles |-> shorter]
                 ELSE LET d2 == remove_file(n.org, d1.fs) IN
                      IF ~d2.ok
                      THEN [ok |-> FALSE, err |-> "delete", fs |-> d2.fs,
                            profiles |-> shorter]
                      ELSE [ok |-> TRUE, err |-> "", fs |-> d2.fs,
                            profiles |-> IF shorter[name] = <<>>
                                         THEN Drop(shorter, name) ELSE shorter]

\* the loop of activate with a rename in place of the copy: the variant is
\* gone once it is swapped in
RECURSIVE activate_loop_move(_, _, _, _)
activate_loop_move(files, i, name, disk) ==
    IF i > Len(files) THEN [ok |-> TRUE, err |-> "", fs |-> disk, n |-> i - 1]
    ELSE LET c == make_canon_names(files[i], name, disk) IN
         IF ~c.ok THEN [ok |-> FALSE, err |-> "canonicalize", fs |-> disk, n |-> i - 1]
         ELSE LET r == copy_file(c.new, c.base, disk) IN
              IF ~r.ok THEN [ok |-> FALSE, err |-> "copy", fs |-> r.fs, n |-> i - 1]
              ELSE activate_loop_move(files, i + 1, name,
                                      [r.fs EXCEPT ![c.new] = Absent])

\* the for loop of activate from position i on; n counts the files swapped in
RECURSIVE activate_loop(_, _, _, _)
activate_loop(files, i, name, disk) ==
    IF i > Len(files) THEN [ok |-> TRUE, err |-> "", fs |-> disk, n |-> i - 1]
    ELSE LET c == make_canon_names(files[i], name, disk) IN
         IF ~c.ok THEN [ok |-> FALSE, err |-> "canonicalize", fs |-> disk, n |-> i - 1]
         ELSE LET r == copy_file(c.new, c.base, disk) IN
              IF ~r.ok THEN [ok |-> FALSE, err |-> "copy", fs |-> r.fs, n |-> i - 1]
              ELSE activate_loop(files, i + 1, name, r.fs)

\* activate that undoes the files already swapped in when its loop fails
activate_rollback(name, prf, disk) ==
    IF name \notin DOMAIN prf THEN [ok |-> FALSE, err |-> "no_profile", fs |-> disk, n |-> 0]
    ELSE LET r == activate_loop(prf[name], 1, name, disk) IN
         IF r.ok THEN r ELSE [r EXCEPT !.fs = disk]

\* activate that renames each variant into place
activate_move(name, prf, disk) ==
    IF name \notin DOMAIN prf THEN [ok |-> FALSE, err |-> "no_profile", fs |-> disk, n |-> 0]
    ELSE activate_loop_move(prf[name], 1, name, disk)

activate(name, prf, disk) ==
    IF name \notin DOMAIN prf THEN [ok |-> FALSE, err |-> "no_profile", fs |-> disk, n |-> 0]
    ELSE activate_loop(prf[name], 1, name, disk)

\* the for loop of deactivate over the set in iteration order `order`
RECURSIVE deactivate_loop(_, _, _)
deactivate_loop(order, i, disk) ==
    IF i > Len(order) THEN [ok |-> TRUE, err |-> "", fs |-> disk, n |-> i - 1]
    ELSE LET c == make_canon_names(order[i], "org", disk) IN
         IF ~c.ok THEN [ok |-> FALSE, err |-> "canonicalize", fs |-> disk, n |-> i - 1]
         ELSE LET r == copy_file(c.org, c.base, disk) IN
              IF ~r.ok THEN [ok |-> FALSE, err |-> "copy", fs |-> r.fs, n |-> i - 1]
              ELSE deactivate_loop(order, i + 1, r.fs)

\* deactivate that restores nothing
deactivate_skip(order, disk) == [ok |-> TRUE, err |-> "", fs |-> disk, n |-> 0]

\* deactivate whose loop leaves out the last element of the set
deactivate_short(order, disk) ==
    deactivate_loop(SubSeq(order, 1, Len(order) - 1), 1, disk)

\* deactivate with the arguments of copy_file swapped
RECURSIVE deactivate_swapped_loop(_, _, _)
deactivate_swapped_loop(order, i, disk) ==
    IF i > Len(order) THEN [ok |-> TRUE, err |-> "", fs |-> disk, n |-> i - 1]
    ELSE LET c == make_canon_names(order[i], "org", disk) IN
         IF ~c.ok THEN [ok |-> FALSE, err |-> "canonicalize", fs |-> disk, n |-> i - 1]
         ELSE LET r == copy_file(c.base, c.org, disk) IN
              IF ~r.ok THEN [ok |-> FALSE, err |-> "copy", fs |-> r.fs, n |-> i - 1]
              ELSE deactivate_swapped_loop(order, i + 1, r.fs)

deactivate_swapped(order, disk) == deactivate_swapped_loop(order, 1, disk)

\* deactivate that reports success although its loop stopped at a failure
deactivate_lenient(order, disk) ==
    [deactivate_loop(order, 1, disk) EXCEPT !.ok = TRUE, !.err = ""]

deactivate(order, disk) == deactivate_loop(order, 1, disk)

\* ---------------------------------------------------------------- main
Commands ==
    [kind : {"Add"}, profile : ProfileArgs, file : FileArgs]
    \cup [kind : {"Remove"}, profile : ProfileNames, file : FileArgs]
    \cup [kind : {"Activate"}, profile : ProfileNames, file : {<<>>}]
    \cup [kind : {"DeActivate"}, profile : {""}, file : {<<>>}]

\* an error that is logged without exit(1): main goes on to write the store
Exit1_fallthrough(e) ==
    /\ pc' = "finished"
    /\ exitCode' = exitCode
    /\ err' = e
    /\ clean' = FALSE

\* log::error!("{e}"); exit(1)
Exit1(e) ==
    /\ pc' = "exited"
    /\ exitCode' = 1
    /\ err' = e
    /\ clean' = FALSE

\* number of entries of the registry, over all file lists
RECURSIVE Entries(_)
Entries(prf) ==
    IF DOMAIN prf = {} THEN 0
    ELSE LET n == CHOOSE n \in DOMAIN prf : TRUE
         IN Len(prf[n]) + Entries([m \in DOMAIN prf \ {n} |-> prf[m]])

\* the cap on registry growth: Add is only issued while the registry is small
Growable(c, prf) == c.kind = "Add" => Entries(prf) < MaxLen

\* main, lines 130-155: parse the arguments, load the registry, then run
\* deactivate, which every command does first; order is the iteration order
\* of the HashSet
Start(c) ==
    /\ pc = "idle"
    /\ LET l == get_profiles(store) IN
       /\ l.ok
       /\ Growable(c, l.profiles)
       /\ store' = l.store
       /\ profiles' = l.profiles
       /\ \E order \in Orders(ManagedFiles(l.profiles)) :
            LET r == deactivate(order, fs) IN
            /\ fs' = r.fs
            /\ liveSrc' = [b \in BasePaths |->
                             IF \E i \in 1..r.n : order[i] = b THEN "" ELSE liveSrc[b]]
            /\ IF r.ok
               THEN /\ pc' = IF c.kind = "DeActivate" THEN "finished" ELSE "deactivated"
                    /\ exitCode' = -1
                    /\ err' = ""
                    /\ UNCHANGED clean
               ELSE Exit1(r.err)
    /\ cmd' = c
    /\ UNCHANGED <<snap, edits>>

\* main, lines 140-144: the registry cannot be loaded
StartFail(c) ==
    /\ pc = "idle"
    /\ LET l == get_profiles(store) IN
       /\ ~l.ok
       /\ store' = l.store
       /\ profiles' = l.profiles
    /\ cmd' = c
    /\ Exit1("load")
    /\ UNCHANGED <<fs, liveSrc, snap, edits>>

AddStep ==
    /\ pc = "deactivated"
    /\ cmd.kind = "Add"
    /\ LET r == add_profile(cmd.profile, cmd.file, profiles, fs)
           base == Resolve(cmd.file)
       IN /\ fs' = r.fs
          /\ profiles' = r.profiles
          /\ IF r.ok
             THEN /\ pc' = "finished"
                  /\ snap' = [snap EXCEPT ![<<base[1], cmd.profile>>] = fs[base]]
                  /\ UNCHANGED <<exitCode, err, clean>>
             ELSE /\ Exit1(r.err)
                  /\ UNCHANGED snap
    /\ UNCHANGED <<store, cmd, liveSrc, edits>>

RemoveStep ==
    /\ pc = "deactivated"
    /\ cmd.kind = "Remove"
    /\ LET r == remove_profile(cmd.profile, cmd.file, profiles, fs) IN
          /\ fs' = r.fs
          /\ profiles' = r.profiles
          /\ snap' = [p \in SnapPaths |-> IF r.fs[p] = Absent THEN 0 ELSE snap[p]]
          /\ IF r.ok
             THEN /\ pc' = "finished"
                  /\ UNCHANGED <<exitCode, err, clean>>
             ELSE Exit1(r.err)
    /\ UNCHANGED <<store, cmd, liveSrc, edits>>

ActivateStep ==
    /\ pc = "deactivated"
    /\ cmd.kind = "Activate"
    /\ LET r == activate(cmd.profile, profiles, fs) IN
          /\ fs' = r.fs
          /\ liveSrc' = [b \in BasePaths |->
                           IF \E i \in 1..r.n : profiles[cmd.profile][i] = b
                           THEN cmd.profile ELSE liveSrc[b]]
          /\ IF r.ok
             THEN /\ pc' = "finished"
                  /\ UNCHANGED <<exitCode, err, clean>>
             ELSE Exit1(r.err)
    /\ UNCHANGED <<store, profiles, cmd, snap, edits>>

\* main, lines 160-171: serialize and write the store; a failed write is
\* logged and main returns normally.  File::create may fail (store untouched)
\* or write_all may fail after the truncation (store torn).
Persist ==
    /\ pc = "finished"
    /\ \E w \in {"ok", "create_failed", "torn"} :
         /\ store' = CASE w = "ok" -> Doc(ToToml(profiles))
                       [] w = "create_failed" -> store
                       [] w = "torn" -> Garbage
         /\ w # "ok" => edits < MaxEdits
         /\ edits' = IF w = "ok" THEN edits ELSE edits + 1
         /\ err' = IF w = "ok" THEN "" ELSE "write"
         /\ clean' = (clean /\ w = "ok")
    /\ exitCode' = 0
    /\ pc' = "exited"
    /\ UNCHANGED <<fs, profiles, cmd, liveSrc, snap>>

\* the process is gone: its arguments, its memory and its exit status with it
ProcessEnd ==
    /\ pc = "exited"
    /\ pc' = "idle"
    /\ cmd' = NoCmd
    /\ profiles' = FromToml({})
    /\ exitCode' = -1
    /\ err' = ""
    /\ UNCHANGED <<fs, store, liveSrc, snap, clean, edits>>

\* ---------------------------------------------------------------- the user
\* the user (or a program) rewrites a live file
EditLive(b, c) ==
    /\ pc = "idle"
    /\ edits < MaxEdits
    /\ fs[b] # c
    /\ fs' = [fs EXCEPT ![b] = c]
    /\ edits' = edits + 1
    /\ UNCHANGED <<store, profiles, pc, cmd, exitCode, err, liveSrc, snap, clean>>

\* the user edits a profile's variant snapshot P.<profile>
EditVariant(p, c) ==
    /\ pc = "idle"
    /\ edits < MaxEdits
    /\ p[2] # "org"
    /\ Exists(fs, p)
    /\ fs[p] # c
    /\ fs' = [fs EXCEPT ![p] = c]
    /\ snap' = [snap EXCEPT ![p] = -1]
    /\ edits' = edits + 1
    /\ UNCHANGED <<store, profiles, pc, cmd, exitCode, err, liveSrc, clean>>

\* the user deletes a profile's variant snapshot by hand
DeleteVariant(p) ==
    /\ pc = "idle"
    /\ edits < MaxEdits
    /\ p[2] # "org"
    /\ Exists(fs, p)
    /\ fs' = [fs EXCEPT ![p] = Absent]
    /\ snap' = [snap EXCEPT ![p] = -1]
    /\ clean' = FALSE
    /\ edits' = edits + 1
    /\ UNCHANGED <<store, profiles, pc, cmd, exitCode, err, liveSrc>>

\* ---------------------------------------------------------------- spec
Init ==
    /\ fs = [p \in AllPaths |-> IF p \in BasePaths THEN 1 ELSE Absent]
    /\ store = NoStore
    /\ profiles = FromToml({})
    /\ pc = "idle"
    /\ cmd = NoCmd
    /\ exitCode = -1
    /\ err = ""
    /\ liveSrc = [b \in BasePaths |-> ""]
    /\ snap = [p \in SnapPaths |-> 0]
    /\ clean = TRUE
    /\ edits = 0

Next ==
    \/ \E c \in Commands : Start(c)
    \/ \E c \in Commands : StartFail(c)
    \/ AddStep
    \/ RemoveStep
    \/ ActivateStep
    \/ Persist
    \/ ProcessEnd
    \/ \E b \in BasePaths, c \in Contents : EditLive(b, c)
    \/ \E p \in SnapPaths, c \in Contents : EditVariant(p, c)
    \/ \E p \in SnapPaths : DeleteVariant(p)

Spec == Init /\ [][Next]_vars

TypeOK ==
    /\ pc \in {"idle", "deactivated", "finished", "exited"}
    /\ exitCode \in {-1, 0, 1}
    /\ \A p \in AllPaths : fs[p] \in Contents \cup {Absent}

\* the snapshot names make_canon_names derives for a canonical path
OrgOf(b) == add_extension(b, "org")
VariantOf(b, n) == add_extension(b, n)

\* ---------------------------------------------------------------- activation
\* A second specification, for what activate does to an arbitrary registry
\* and disk.  It starts between two runs, in any state that adds, manual
\* edits and manual deletions of variants lead to: profile a lists any
\* sequence of managed paths (duplicates included), profile b lists g or does
\* not exist, every P.org exists, the variants of a hold any content or are
\* missing, the live files hold any content.  Only activate is then issued.
SeqsUpTo(S, n) == UNION {[1..k -> S] : k \in 1..n}

SwapRegistries ==
    {[n \in {"a"} |-> la] : la \in SeqsUpTo(BasePaths, MaxLen)}
    \cup {[n \in {"a", "b"} |-> IF n = "a" THEN la ELSE <<<<"g">>>>] :
             la \in SeqsUpTo(BasePaths, MaxLen - 1)}

SwapDisks(reg) ==
    {d \in [AllPaths -> Contents \cup {Absent}] :
        /\ \A b \in BasePaths : Exists(d, b) /\ Exists(d, OrgOf(b))
        /\ d[<<"f", "b">>] = Absent
        /\ d[<<"g", "b">>] = IF "b" \in DOMAIN reg THEN d[<<"g", "org">>] ELSE Absent}

ActivateCommands == {c \in Commands : c.kind = "Activate"}

InitSwap ==
    /\ \E reg \in SwapRegistries :
          /\ store = Doc(ToToml(reg))
          /\ fs \in SwapDisks(reg)
    /\ profiles = FromToml({})
    /\ pc = "idle"
    /\ cmd = NoCmd
    /\ exitCode = -1
    /\ err = ""
    /\ liveSrc = [b \in BasePaths |-> ""]
    /\ snap = [p \in SnapPaths |-> -1]
    /\ clean = FALSE
    /\ edits = 0

NextSwap ==
    \/ \E c \in ActivateCommands : Start(c)
    \/ ActivateStep
    \/ Persist
    \/ ProcessEnd

SpecSwap == InitSwap /\ [][NextSwap]_vars

\* ---------------------------------------------------------------- properties
\* a run that ended without any reported error, after a history of such runs
\* and of no manual deletion: profiles is the registry it has just persisted
CompletedOk == pc = "exited" /\ exitCode = 0 /\ err = "" /\ clean

\* C1 (invariant I1): after any sequence of successfully completed commands,
\* every path listed under any profile of the registry has its P.org on disk.
I1_OrgExists ==
    CompletedOk =>
        \A b \in ManagedFiles(profiles) : Exists(fs, OrgOf(b))

\* C2 (invariant I2): after any sequence of successfully completed commands,
\* every (path P, profile N) entry of the registry has its P.N on disk.
I2_VariantExists ==
    CompletedOk =>
        \A n \in DOMAIN profiles : \A b \in Range(profiles[n]) :
            Exists(fs, VariantOf(b, n))

\* p is the profile the live files show, judged by content: every managed path
\* of p's list holds P.p and every other managed path holds its P.org
LiveAs(p) ==
    \A b \in ManagedFiles(profiles) :
        fs[b] = IF b \in Range(profiles[p]) THEN fs[VariantOf(b, p)] ELSE fs[OrgOf(b)]

\* the profiles whose variant was the last snapshot copied into some live file
LiveProfiles == {liveSrc[b] : b \in BasePaths} \cap ProfileNames

\* C3 as stated: after a successful command at most one profile satisfies the
\* content condition LiveAs.
I3_AtMostOneLiveAs ==
    CompletedOk => Cardinality({p \in DOMAIN profiles : LiveAs(p)}) <= 1

\* C3 (invariant I3) as amended: while no run has reported an error, the live
\* files hold copies of the variants of at most one profile, and right after a
\* successful activate(p) that profile is p, every path of p's list holds P.p
\* and every other managed path holds its P.org.
I3_OneProfileLive ==
    clean =>
        /\ Cardinality(LiveProfiles) <= 1
        /\ (pc = "finished" /\ cmd.kind = "Activate") =>
              /\ LiveProfiles \subseteq {cmd.profile}
              /\ LiveAs(cmd.profile)

I3_Witness ==
    /\ clean /\ pc = "finished" /\ cmd.kind = "Activate" /\ cmd.profile = "b"
    /\ "a" \in DOMAIN profiles
    /\ <<"f">> \in Range(profiles["a"]) /\ <<"g">> \in Range(profiles["b"])
    /\ fs[<<"f", "a">>] # fs[<<"f", "org">>]
    /\ liveSrc[<<"f">>] = "" /\ liveSrc[<<"g">>] = "b"

\* the deactivate step of a run succeeded
DeactivateSucceeds ==
    pc = "idle" /\ pc' \in {"deactivated", "finished"}

\* C4: while every run so far has succeeded, the content of P.org never
\* changes as long as P.org exists (a re-add writes what it already holds), and
\* a successful deactivate leaves every managed live file with the content of
\* its P.org, whatever profile was active.
OrgNeverChanges ==
    [][/\ clean =>
            \A b \in BasePaths :
                Exists(fs, OrgOf(b)) /\ Exists(fs', OrgOf(b))
                    => fs'[OrgOf(b)] = fs[OrgOf(b)]
       /\ DeactivateSucceeds =>
            \A b \in ManagedFiles(profiles') : fs'[b] = fs[OrgOf(b)]]_vars

\* f is shared by a and b, a's variant differs from f.org, and a successful
\* deactivate has just put f.org's content back into f
OrgNeverChanges_Witness ==
    /\ pc = "finished" /\ cmd.kind = "DeActivate"
    /\ "a" \in DOMAIN profiles /\ "b" \in DOMAIN profiles
    /\ <<"f">> \in Range(profiles["a"]) /\ <<"f">> \in Range(profiles["b"])
    /\ fs[<<"f", "a">>] # fs[<<"f", "org">>]
    /\ fs[<<"f">>] = fs[<<"f", "org">>]

\* C5: right after a successful activate(p), every path of p's list whose
\* variant P.p was not modified from outside since add(p, P) holds the content
\* it had when add_profile was called.
AddActivateRoundTrip ==
    (pc = "finished" /\ cmd.kind = "Activate") =>
        \A b \in Range(profiles[cmd.profile]) :
            snap[VariantOf(b, cmd.profile)] \in Contents =>
                fs[b] = snap[VariantOf(b, cmd.profile)]

\* f was added to a with content 2, and activate(a) has put that content back
AddActivateRoundTrip_Witness ==
    /\ pc = "finished" /\ cmd.kind = "Activate" /\ cmd.profile = "a"
    /\ <<"f">> \in Range(profiles["a"])
    /\ snap[<<"f", "a">>] = 2
    /\ liveSrc[<<"f">>] = "a"
    /\ fs[<<"f">>] = 2

\* between runs, with a store that the next run can load
Loadable == pc = "idle" /\ get_profiles(store).ok

\* the registry the next run loads
Registry == get_profiles(store).profiles

RemoveFrame ==
    [][(pc = "deactivated" /\ cmd.kind = "Remove" /\ pc' = "finished") =>
        LET b == Resolve(cmd.file)
            p == cmd.profile
            rest == VecRemove(profiles[p], position(profiles[p], b))
        IN /\ {q \in AllPaths : fs'[q] # fs[q]} = {VariantOf(b, p), OrgOf(b)}
           /\ fs'[VariantOf(b, p)] = Absent /\ fs'[OrgOf(b)] = Absent
           /\ position(profiles[p], b) # 0
           /\ (p \notin DOMAIN profiles') <=> (rest = <<>>)
           /\ p \in DOMAIN profiles' => profiles'[p] = rest
           /\ \A q \in DOMAIN profiles \ {p} :
                 q \in DOMAIN profiles' /\ profiles'[q] = profiles[q]
           /\ DOMAIN profiles' \subseteq DOMAIN profiles]_vars

\* a remove that left its profile in place, next to another profile
RemoveFrame_Witness ==
    /\ pc = "finished" /\ cmd.kind = "Remove" /\ cmd.profile = "a"
    /\ cmd.file = <<"fl">>
    /\ "a" \in DOMAIN profiles /\ "b" \in DOMAIN profiles
    /\ profiles["a"] = <<<<"g">>>>
    /\ fs[<<"f", "a">>] = Absent /\ fs[<<"f", "org">>] = Absent

\* C8: add_profile("org", f) fails with the reserved-name error, writes no
\* file and leaves the registry and the store as they were.
ReservedNameRejected ==
    [][(pc = "deactivated" /\ cmd.kind = "Add" /\ cmd.profile = "org") =>
        /\ pc' = "exited" /\ exitCode' = 1 /\ err' = "reserved"
        /\ fs' = fs /\ profiles' = profiles /\ store' = store]_vars

ReservedNameRejected_Witness ==
    /\ pc = "exited" /\ cmd.kind = "Add" /\ cmd.profile = "org"
    /\ cmd.file = <<"f">> /\ err = "reserved"
    /\ "a" \in DOMAIN profiles

\* the requested operation of the run is about to fail
CommandFails ==
    /\ pc = "deactivated"
    /\ \/ cmd.kind = "Add" /\ ~add_profile(cmd.profile, cmd.file, profiles, fs).ok
       \/ cmd.kind = "Remove" /\ ~remove_profile(cmd.profile, cmd.file, profiles, fs).ok
       \/ cmd.kind = "Activate" /\ ~activate(cmd.profile, profiles, fs).ok

\* C9 as stated: a remove that shortened the in-memory list and then failed
\* to delete a snapshot still ends with the in-memory registry in the store.
FailedRemovePersisted ==
    (pc = "exited" /\ cmd.kind = "Remove" /\ err = "delete") =>
        store = Doc(ToToml(profiles))

\* C9 as amended: a command error ends the run with exit code 1 before the
\* store is serialized or written: the store keeps the registry it held, so
\* after a remove that shortened the in-memory list and then failed to delete
\* a snapshot the store still lists the path.
FailedCommandNotPersisted ==
    [][/\ CommandFails => (pc' = "exited" /\ exitCode' = 1 /\ store' = store)
       /\ pc = "exited" => store' = store]_vars

FailedCommandNotPersisted_Witness ==
    /\ pc = "exited" /\ exitCode = 1 /\ cmd.kind = "Remove" /\ err = "delete"
    /\ store.kind = "doc"
    /\ cmd.profile \in DOMAIN profiles
    /\ Len(profiles[cmd.profile]) < Len(FromToml(store.doc)[cmd.profile])

\* C10: a run ends with exit code 0 exactly when it reported no error.
ExitCodeReflectsErrors ==
    pc = "exited" => (exitCode = 0 <=> err = "")

\* C11: every run loads the registry and runs deactivate before anything else:
\* that first step writes no snapshot and only puts P.org into managed live
\* files; the requested operation runs only from the state in which every
\* managed live file holds its P.org; and when deactivate fails the run ends
\* with exit code 1, the registry and the store being those that were loaded.
DeactivateBeforeOperation ==
    [][LET l == get_profiles(store) IN
       /\ (pc = "idle" /\ pc' # "idle") =>
            /\ profiles' = l.profiles
            /\ \A p \in SnapPaths : fs'[p] = fs[p]
            /\ \A b \in BasePaths :
                  fs'[b] # fs[b] =>
                      b \in ManagedFiles(l.profiles) /\ fs'[b] = fs[OrgOf(b)]
            /\ pc' = "exited" => exitCode' = 1 /\ store' = l.store
            /\ pc' \in {"deactivated", "finished"} =>
                  \A b \in ManagedFiles(profiles') :
                      Exists(fs', OrgOf(b)) /\ fs'[b] = fs'[OrgOf(b)]
       /\ (pc' = "finished" /\ cmd'.kind # "DeActivate") => pc = "deactivated"
       /\ (pc # "idle" /\ (profiles' # profiles \/ fs' # fs)) =>
              pc \in {"deactivated", "exited"}]_vars

\* add a g was requested while the registry lists a path whose P.org is gone:
\* deactivate failed, and neither g.org nor g.a was written
DeactivateBeforeOperation_Witness ==
    /\ pc = "exited" /\ exitCode = 1 /\ err = "copy"
    /\ cmd.kind = "Add" /\ cmd.profile = "a" /\ cmd.file = <<"g">>
    /\ ManagedFiles(profiles) # {}
    /\ ~Exists(fs, <<"g", "org">>) /\ ~Exists(fs, <<"g", "a">>)

\* C12: a successful add_profile(p, f) leaves the live file f as it was, makes
\* f.org and f.p hold that content, writes no other file, appends the canonical
\* path of f at the end of p's list (a one-element list when p is new, one more
\* duplicate when f was listed), and leaves every other profile unchanged.
AddEffect ==
    [][(pc = "deactivated" /\ cmd.kind = "Add" /\ pc' = "finished") =>
        LET b == Resolve(cmd.file)
            p == cmd.profile
        IN /\ fs'[b] = fs[b]
           /\ fs'[OrgOf(b)] = fs[b] /\ fs'[VariantOf(b, p)] = fs[b]
           /\ \A q \in AllPaths \ {OrgOf(b), VariantOf(b, p)} : fs'[q] = fs[q]
           /\ DOMAIN profiles' = DOMAIN profiles \cup {p}
           /\ profiles'[p] = IF p \in DOMAIN profiles
                             THEN Append(profiles[p], b) ELSE <<b>>
           /\ \A q \in DOMAIN profiles \ {p} : profiles'[q] = profiles[q]]_vars

\* f, given through the symlink fl, was added to b a second time, next to
\* profile a
AddEffect_Witness ==
    /\ pc = "finished" /\ cmd.kind = "Add" /\ cmd.profile = "b"
    /\ cmd.file = <<"fl">>
    /\ "a" \in DOMAIN profiles /\ "b" \in DOMAIN profiles
    /\ profiles["b"] = <<<<"f">>, <<"f">>>>
    /\ fs[<<"f", "b">>] = fs[<<"f">>] /\ fs[<<"f", "org">>] = fs[<<"f">>]

\* the first position of files whose live file or variant P.p is missing, 0
\* when there is none
FirstMissing(files, p, disk) ==
    LET bad(j) == ~Exists(disk, files[j]) \/ ~Exists(disk, VariantOf(files[j], p))
    IN IF \E j \in 1..Len(files) : bad(j)
       THEN CHOOSE j \in 1..Len(files) : bad(j) /\ \A k \in 1..(j - 1) : ~bad(k)
       ELSE 0

\* C13 as stated: activate(p) on an absent profile fails and changes no file;
\* when it fails at list position i, every path before i holds its P.p and
\* every path at position i or later holds its P.org.
ActivateStopsLaterAllOrg ==
    [][(pc = "deactivated" /\ cmd.kind = "Activate") =>
        LET p == cmd.profile IN
        IF p \notin DOMAIN profiles
        THEN pc' = "exited" /\ exitCode' = 1 /\ fs' = fs
        ELSE LET files == profiles[p]
                 i == FirstMissing(files, p, fs)
             IN i # 0 =>
                  /\ pc' = "exited" /\ exitCode' = 1
                  /\ \A j \in 1..(i - 1) : fs'[files[j]] = fs'[VariantOf(files[j], p)]
                  /\ \A j \in i..Len(files) : fs'[files[j]] = fs'[OrgOf(files[j])]]_vars

\* C13 as amended: activate(p) on an absent profile fails and changes no file;
\* when it fails at list position i, no snapshot has changed, every path
\* before i holds its P.p, and every path at position i or later that does
\* not also occur before i still holds its P.org.
ActivateStopsAtFirstFailure ==
    [][(pc = "deactivated" /\ cmd.kind = "Activate") =>
        LET p == cmd.profile IN
        IF p \notin DOMAIN profiles
        THEN pc' = "exited" /\ exitCode' = 1 /\ err' = "no_profile" /\ fs' = fs
        ELSE LET files == profiles[p]
                 i == FirstMissing(files, p, fs)
             IN i # 0 =>
                  /\ pc' = "exited" /\ exitCode' = 1
                  /\ \A q \in SnapPaths : fs'[q] = fs[q]
                  /\ \A j \in 1..(i - 1) : fs'[files[j]] = fs[VariantOf(files[j], p)]
                  /\ \A j \in i..Len(files) :
                        (\A k \in 1..(i - 1) : files[k] # files[j]) =>
                            /\ fs'[files[j]] = fs[files[j]]
                            /\ fs'[files[j]] = fs[OrgOf(files[j])]]_vars

\* activate(a) over the list f, g, f stopped at g, whose variant is missing:
\* f, listed before and after g, holds f.a, which differs from f.org
ActivateStopsAtFirstFailure_Witness ==
    /\ pc = "exited" /\ exitCode = 1 /\ err = "copy"
    /\ cmd.kind = "Activate" /\ cmd.profile = "a"
    /\ "a" \in DOMAIN profiles
    /\ profiles["a"] = <<<<"f">>, <<"g">>, <<"f">>>>
    /\ ~Exists(fs, <<"g", "a">>)
    /\ fs[<<"f">>] = fs[<<"f", "a">>] /\ fs[<<"f">>] # fs[<<"f", "org">>]
    /\ fs[<<"g">>] = fs[<<"g", "org">>]

\* the remove step of the run fails and leaves the registry and every file
\* as they were
RemoveRejected(e) ==
    /\ pc' = "exited" /\ exitCode' = 1 /\ err' = e
    /\ fs' = fs /\ profiles' = profiles /\ store' = store

\* C14 as stated: remove(p, f) fails with profile-not-found whenever p is
\* absent from the registry, and with file-not-managed when p exists and the
\* canonical path of f is not in its list, changing nothing in both cases.
RemoveErrorsByRegistry ==
    [][(pc = "deactivated" /\ cmd.kind = "Remove") =>
        /\ cmd.profile \notin DOMAIN profiles => RemoveRejected("no_profile")
        /\ (/\ cmd.profile \in DOMAIN profiles
            /\ Exists(fs, Resolve(cmd.file))
            /\ Resolve(cmd.file) \notin Range(profiles[cmd.profile]))
               => RemoveRejected("not_managed")]_vars

\* C14 as amended: remove(p, f) first canonicalizes f and fails with the
\* path-resolution error when f does not exist; otherwise it fails with
\* profile-not-found when p is absent and with file-not-managed when the
\* canonical path of f is not in p's list.  In all three cases the registry
\* and every file are unchanged.  When f occurs several times in p's list a
\* successful remove takes out the first occurrence only.
RemoveErrors ==
    [][(pc = "deactivated" /\ cmd.kind = "Remove") =>
        LET p == cmd.profile
            b == Resolve(cmd.file)
        IN /\ ~Exists(fs, b) => RemoveRejected("canonicalize")
           /\ (Exists(fs, b) /\ p \notin DOMAIN profiles)
                 => RemoveRejected("no_profile")
           /\ (Exists(fs, b) /\ p \in DOMAIN profiles /\ b \notin Range(profiles[p]))
                 => RemoveRejected("not_managed")
           /\ (pc' = "finished" /\ p \in DOMAIN profiles') =>
                 \E i \in 1..Len(profiles[p]) :
                     /\ profiles[p][i] = b
                     /\ \A j \in 1..(i - 1) : profiles[p][j] # b
                     /\ Len(profiles'[p]) = Len(profiles[p]) - 1
                     /\ \A j \in 1..Len(profiles'[p]) :
                           profiles'[p][j] = profiles[p][IF j < i THEN j ELSE j + 1]]_vars

\* remove b f was rejected with file-not-managed: b exists and lists only g,
\* while f is managed by a, whose snapshots are still in place
RemoveErrors_Witness ==
    /\ pc = "exited" /\ exitCode = 1 /\ err = "not_managed"
    /\ cmd.kind = "Remove" /\ cmd.profile = "b" /\ cmd.file = <<"fl">>
    /\ "a" \in DOMAIN profiles /\ "b" \in DOMAIN profiles
    /\ <<"f">> \in Range(profiles["a"]) /\ profiles["b"] = <<<<"g">>>>
    /\ Exists(fs, <<"f", "org">>) /\ Exists(fs, <<"f", "a">>)

\* C15: the store never holds a profile with an empty file list, and neither
\* does the registry a run is about to persist: a profile appears with the
\* path add_profile pushes and is dropped by the remove that empties its list.
NoEmptyProfile ==
    /\ store.kind = "doc" => \A t \in store.doc : t.files # <<>>
    /\ pc = "finished" => \A n \in DOMAIN profiles : profiles[n] # <<>>
    /\ (pc = "exited" /\ exitCode = 0 /\ err = "") =>
          /\ store.kind = "doc"
          /\ \A n \in DOMAIN FromToml(store.doc) : FromToml(store.doc)[n] # <<>>

\* remove a f emptied a's list: the persisted registry has lost a and kept b
NoEmptyProfile_Witness ==
    /\ pc = "exited" /\ exitCode = 0 /\ err = ""
    /\ cmd.kind = "Remove" /\ cmd.profile = "a"
    /\ store.kind = "doc"
    /\ DOMAIN FromToml(store.doc) = {"b"}

\* C16: the store is written only by the last step of a run whose command
\* succeeded (and created empty by a run that finds none); a successful write
\* replaces its content with the serialized in-memory registry, which the
\* next run loads back unchanged; a failed write leaves every file as the
\* command left it.
PersistOnce ==
    [][/\ store' # store =>
            \/ pc = "finished" /\ pc' = "exited"
            \/ pc = "idle" /\ store = NoStore /\ store' = Doc({})
       /\ (pc = "finished" /\ pc' = "exited") =>
            /\ fs' = fs /\ profiles' = profiles
            /\ err' = "" =>
                  /\ store' = Doc(ToToml(profiles))
                  /\ get_profiles(store').ok
                  /\ get_profiles(store').profiles = profiles
            /\ err' # "" => err' = "write"
       /\ (pc = "idle" /\ pc' \in {"deactivated", "finished"} /\ store.kind = "doc") =>
            /\ store' = store
            /\ profiles' = FromToml(store.doc)
            /\ ToToml(profiles') = store.doc]_vars

\* a run has just loaded a registry of two profiles, one of them listing two
\* paths, that an earlier run persisted
PersistOnce_Witness ==
    /\ pc = "deactivated"
    /\ store = Doc(ToToml(profiles))
    /\ DOMAIN profiles = {"a", "b"}
    /\ profiles["a"] = <<<<"g">>, <<"f">>>>

\* C17: between runs, after a history of successfully completed commands and
\* no outside change to any file, deactivate succeeds (in every iteration
\* order), and so does remove(p, f) after it for every entry (p, f) of the
\* registry.
Recoverable ==
    (Loadable /\ clean /\ edits = 0) =>
        \A o \in Orders(ManagedFiles(Registry)) :
            LET d == deactivate(o, fs) IN
            /\ d.ok
            /\ \A p \in DOMAIN Registry : \A b \in Range(Registry[p]) :
                  remove_profile(p, b, Registry, d.fs).ok

\* the paths whose content or existence a step changes
Written == {q \in AllPaths : fs'[q] # fs[q]}

\* C18: deactivate (the first step of a run) and activate change neither the
\* registry nor the store nor any snapshot; deactivate writes only live files
\* listed by some profile and activate(p) only live files of p's list; and the
\* only steps of the program that write or delete a snapshot are
\* add_profile(N, P) and remove_profile(N, P), which touch P.N and P.org alone.
SwapFrame ==
    [][LET l == get_profiles(store) IN
       /\ (pc = "idle" /\ pc' # "idle" /\ l.ok) =>
            /\ Written \subseteq ManagedFiles(l.profiles)
            /\ profiles' = l.profiles /\ store' = l.store
       /\ (pc = "deactivated" /\ cmd.kind = "Activate") =>
            /\ Written \subseteq
                  (IF cmd.profile \in DOMAIN profiles
                   THEN Range(profiles[cmd.profile]) ELSE {})
            /\ profiles' = profiles /\ store' = store
       /\ (pc # "idle" /\ Written \cap SnapPaths # {}) =>
            /\ pc = "deactivated" /\ cmd.kind \in {"Add", "Remove"}
            /\ Written \cap SnapPaths \subseteq
                  {OrgOf(Resolve(cmd.file)), VariantOf(Resolve(cmd.file), cmd.profile)}]_vars

\* activate(a) has put f.a, which differs from f.org, into f and has left g,
\* managed by b alone, in its deactivated state
SwapFrame_Witness ==
    /\ pc = "finished" /\ cmd.kind = "Activate" /\ cmd.profile = "a"
    /\ DOMAIN profiles = {"a", "b"}
    /\ profiles["a"] = <<<<"f">>>> /\ profiles["b"] = <<<<"g">>>>
    /\ fs[<<"f">>] = fs[<<"f", "a">>] /\ fs[<<"f">>] # fs[<<"f", "org">>]
    /\ fs[<<"g">>] = fs[<<"g", "org">>]
    /\ liveSrc[<<"f">>] = "a" /\ liveSrc[<<"g">>] = ""

====
